---- MODULE Spec2Model ----
(***************************************************************************)
(* A model of src/stateful_iterators/string_iterator.ts: the stream        *)
(* returned by StringChunkIterator.split(separator), i.e. SplitIterator    *)
(* delegating to SplitIteratorImpl, pulled by one consumer from an         *)
(* upstream iterator of string chunks.                                     *)
(*                                                                         *)
(* A string is a sequence of one-character strings, so that split(), + and *)
(* === are computed character by character.                                *)
(***************************************************************************)
EXTENDS Integers, Sequences, FiniteSets, TLC

\* ------------------------------------------------------------------ bounds

\* The characters upstream chunks are made of.
Alphabet == {"a", ","}

\* The longest chunk the upstream yields.
MaxFragLen == 2

\* The most chunks the upstream yields before it reports done.
MaxFrags == 3

\* The separators split() is called with: empty, one character, two
\* characters.
Separators == {<<>>, <<",">>, <<",", "a">>}

\* The failures an upstream pull can raise.
Errors == {"E1", "E2"}

Strings(n) == UNION {[1..k -> Alphabet] : k \in 0..n}

Fragments == Strings(MaxFragLen)

\* --------------------------------------------------------- string helpers

\* What JavaScript's + appends for array[0] of an empty array.
Undefined == <<"u", "n", "d", "e", "f", "i", "n", "e", "d">>

RECURSIVE SplitRec(_, _, _)
\* String.prototype.split for a non-empty separator: scan left to right,
\* cut at each non-overlapping occurrence; cur is the part being built.
SplitRec(rest, sep, cur) ==
  IF Len(rest) < Len(sep) THEN <<cur \o rest>>
  ELSE IF SubSeq(rest, 1, Len(sep)) = sep
       THEN <<cur>> \o SplitRec(SubSeq(rest, Len(sep) + 1, Len(rest)), sep, <<>>)
       ELSE SplitRec(Tail(rest), sep, Append(cur, Head(rest)))

\* value.split(separator): with the empty separator, one part per character
\* (no part at all for the empty string); otherwise the parts between the
\* occurrences of the separator (one empty part for the empty string).
JsSplit(value, sep) ==
  IF sep = <<>> THEN [i \in 1..Len(value) |-> <<value[i]>>]
  ELSE SplitRec(value, sep, <<>>)

RECURSIVE Join(_, _)
\* Array.prototype.join: the parts with sep between neighbours.
Join(parts, sep) ==
  IF parts = <<>> THEN <<>>
  ELSE IF Len(parts) = 1 THEN parts[1]
  ELSE parts[1] \o sep \o Join(Tail(parts), sep)

\* slice(0) in place of slice(0, -1): the last element is kept.
SliceButLast_All(arr) == arr

\* array.slice(0, -1): all but the last element (empty for an empty array).
SliceButLast(arr) == IF Len(arr) = 0 THEN <<>> ELSE SubSeq(arr, 1, Len(arr) - 1)

\* s contains sub as a substring.
Contains(s, sub) ==
  \E i \in 1..(Len(s) - Len(sub) + 1) : SubSeq(s, i, i + Len(sub) - 1) = sub

IsPrefix(p, s) == Len(p) <= Len(s) /\ SubSeq(s, 1, Len(p)) = p

\* ------------------------------------------------------------------ state

VARIABLES
  separator,      \* SplitIteratorImpl.separator, fixed at construction
  state,          \* the StringCarryover the iterator holds between pulls
  outputQueue,    \* StatefulOneToManyIterator.outputQueue
  pc,             \* where the consumer's next() is: idle, statefulNext, statefulPump
  pumpState,      \* the state argument of the statefulPump call in progress
  failed,         \* an upstream failure has surfaced from this iterator
  upDone,         \* the upstream has reported done
  nFrags,         \* how many chunks the upstream has yielded
  logical,        \* the concatenation of the chunks yielded so far
  delivered,      \* the tokens next() has returned, in order
  lastResult,     \* how the last completed next() ended: none, value, done, error
  lastError,      \* the failure the last failing next() raised
  upstreamError,  \* the failure the upstream raised
  pumpDidWork,    \* pumpDidWork of the last completed statefulPump: none, true, false
  doneCount,      \* how many next() calls have reported done (counted up to 2)
  endDelivered,   \* Len(delivered) when the upstream first reported done (-1 before)
  endCarryover,   \* the carryover when the upstream first reported done
  pulls,          \* the callers whose upstream pulls have not settled, oldest first
  pcB,            \* where an overlapping second next() call is
  pumpStateB,     \* the state argument of the second call's statefulPump
  overlapped      \* a statefulPump was started while another was suspended

vars == <<separator, state, outputQueue, pc, pumpState, failed, upDone, nFrags,
          logical, delivered, lastResult, lastError, upstreamError, pumpDidWork,
          doneCount, endDelivered, endCarryover, pulls, pcB, pumpStateB,
          overlapped>>

\* The variables of an overlapping second next() call.
overlapVars == <<pcB, pumpStateB, overlapped>>

\* The carryover field of the held state.
carryover == state.carryover

\* SplitIteratorImpl.initialState(): {carryover: ''}.
initialState == [carryover |-> <<>>]

\* ------------------------------------------------------------- statefulPump

\* PumpOnDone without the flush: upstream end always reports no work.
PumpOnDone_NoFlush(st) == [pumpDidWork |-> FALSE, pushed |-> <<>>, state |-> st]

\* PumpOnDone that pushes the carryover but returns the old state.
PumpOnDone_NoReset(st) ==
  IF st.carryover = <<>>
  THEN [pumpDidWork |-> FALSE, pushed |-> <<>>, state |-> st]
  ELSE [pumpDidWork |-> TRUE, pushed |-> <<st.carryover>>, state |-> st]

\* PumpOnDone without the test for the empty carryover.
PumpOnDone_AlwaysFlush(st) ==
  [pumpDidWork |-> TRUE, pushed |-> <<st.carryover>>,
   state |-> [carryover |-> <<>>]]

\* PumpOnDone that reports no work but returns a reset state, the carryover
\* neither pushed nor kept.
PumpOnDone_LoseCarryover(st) ==
  [pumpDidWork |-> FALSE, pushed |-> <<>>, state |-> [carryover |-> <<>>]]

\* PumpOnDone that reports work even when it has nothing to push.
PumpOnDone_AlwaysWork(st) ==
  IF st.carryover = <<>>
  THEN [pumpDidWork |-> TRUE, pushed |-> <<>>, state |-> st]
  ELSE [pumpDidWork |-> TRUE, pushed |-> <<st.carryover>>,
        state |-> [carryover |-> <<>>]]

\* The branch of statefulPump taken when chunkResult.done: nothing to do for
\* an empty carryover, otherwise push the carryover and reset it.
PumpOnDone(st) ==
  IF st.carryover = <<>>
  THEN [pumpDidWork |-> FALSE, pushed |-> <<>>, state |-> st]
  ELSE [pumpDidWork |-> TRUE, pushed |-> <<st.carryover>>,
        state |-> [carryover |-> <<>>]]

\* PrependCarryover that leaves lines[0] alone: the carryover is dropped.
PrependCarryover_Dropped(st, lines) ==
  IF Len(lines) = 0 THEN <<Undefined>> ELSE lines

\* lines after `lines[0] = state.carryover + lines[0]`: assigning index 0 of
\* an empty array (the empty chunk split on the empty separator) creates the
\* element, and + renders the missing lines[0] as "undefined".
PrependCarryover(st, lines) ==
  IF Len(lines) = 0 THEN <<st.carryover \o Undefined>>
  ELSE [lines EXCEPT ![1] = st.carryover \o lines[1]]

\* The branch of statefulPump taken for a chunk: split it, prepend the
\* carryover to the first line, push every line but the last, keep the last.
PumpOnValue(st, value, sep) ==
  LET lines == PrependCarryover(st, JsSplit(value, sep))
  IN  [pumpDidWork |-> TRUE, pushed |-> SliceButLast(lines),
       state |-> [carryover |-> lines[Len(lines)]]]

\* PumpOnThrow that salvages the carryover as a token before rejecting.
PumpOnThrow_Salvage(st, queue) ==
  [outputQueue |-> Append(queue, st.carryover), state |-> [carryover |-> <<>>]]

\* A statefulPump that pulls the upstream twice.
UpstreamNext_Twice(unsettled, caller) == Append(Append(unsettled, caller), caller)

\* `this.upstream.next()` in statefulPump: one upstream pull is issued for
\* the caller, behind the pulls that have not settled yet.
UpstreamNext(unsettled, caller) == Append(unsettled, caller)

\* statefulPump when `await this.upstream.next()` throws: the async function
\* rejects at the await, before any push and without a result state.
PumpOnThrow(st, queue) == [outputQueue |-> queue, state |-> st]

\* -------------------------------------------------------------------- Init

Init ==
  /\ separator \in Separators
  /\ state = initialState
  /\ outputQueue = <<>>
  /\ pc = "idle"
  /\ pumpState = initialState
  /\ failed = FALSE
  /\ upDone = FALSE
  /\ nFrags = 0
  /\ logical = <<>>
  /\ delivered = <<>>
  /\ lastResult = "none"
  /\ lastError = "none"
  /\ upstreamError = "none"
  /\ pumpDidWork = "none"
  /\ doneCount = 0
  /\ endDelivered = -1
  /\ endCarryover = <<>>
  /\ pulls = <<>>
  /\ pcB = "idle"
  /\ pumpStateB = initialState
  /\ overlapped = FALSE

\* ----------------------------------------------------------------- actions

\* The consumer calls next() on an iterator that has not failed.
next ==
  /\ pc = "idle"
  /\ ~failed
  /\ pc' = "statefulNext"
  /\ UNCHANGED <<separator, state, outputQueue, pumpState, failed, upDone, nFrags,
                 logical, delivered, lastResult, lastError, upstreamError,
                 pumpDidWork, doneCount, endDelivered, endCarryover, pulls,
                 overlapVars>>

\* The consumer calls next() after a failure: the failure is terminal, the
\* call raises it again and nothing else happens.
nextAfterFailure ==
  /\ pc = "idle"
  /\ failed
  /\ lastResult' = "error"
  /\ lastError' = upstreamError
  /\ UNCHANGED <<separator, state, outputQueue, pc, pumpState, failed, upDone,
                 nFrags, logical, delivered, upstreamError, pumpDidWork,
                 doneCount, endDelivered, endCarryover, pulls, overlapVars>>

\* statefulNext with a non-empty queue: remove and return its front token.
statefulNextShift ==
  /\ pc = "statefulNext"
  /\ outputQueue # <<>>
  /\ delivered' = Append(delivered, Head(outputQueue))
  /\ outputQueue' = Tail(outputQueue)
  /\ lastResult' = "value"
  /\ pc' = "idle"
  /\ UNCHANGED <<separator, state, pumpState, failed, upDone, nFrags, logical,
                 lastError, upstreamError, pumpDidWork, doneCount, endDelivered,
                 endCarryover, pulls, overlapVars>>

\* statefulNext with an empty queue: call statefulPump(state), which pulls
\* the upstream and suspends until that pull settles.
statefulPumpCall ==
  /\ pc = "statefulNext"
  /\ outputQueue = <<>>
  /\ pumpState' = state
  /\ pulls' = UpstreamNext(pulls, "A")
  /\ overlapped' = (overlapped \/ pcB = "statefulPump")
  /\ pc' = "statefulPump"
  /\ UNCHANGED <<separator, state, outputQueue, failed, upDone, nFrags, logical,
                 delivered, lastResult, lastError, upstreamError, pumpDidWork,
                 doneCount, endDelivered, endCarryover, pcB, pumpStateB>>

\* The upstream pull yields the chunk value: statefulPump splits it, and
\* statefulNext takes the new state and goes round its loop.
statefulPumpValue(value) ==
  /\ pc = "statefulPump"
  /\ pulls # <<>> /\ Head(pulls) = "A"
  /\ pulls' = Tail(pulls)
  /\ ~upDone
  /\ nFrags < MaxFrags
  /\ LET r == PumpOnValue(pumpState, value, separator)
     IN  /\ outputQueue' = outputQueue \o r.pushed
         /\ state' = r.state
         /\ pumpDidWork' = IF r.pumpDidWork THEN "true" ELSE "false"
  /\ nFrags' = nFrags + 1
  /\ logical' = logical \o value
  /\ pc' = "statefulNext"
  /\ UNCHANGED <<separator, pumpState, failed, upDone, delivered, lastResult,
                 lastError, upstreamError, doneCount, endDelivered, endCarryover,
                 overlapVars>>

\* The upstream pull reports done: statefulPump flushes a non-empty carryover
\* (statefulNext then goes round its loop) or reports no work (statefulNext
\* then returns done).
statefulPumpDone ==
  /\ pc = "statefulPump"
  /\ pulls # <<>> /\ Head(pulls) = "A"
  /\ pulls' = Tail(pulls)
  /\ upDone' = TRUE
  /\ endDelivered' = IF upDone THEN endDelivered ELSE Len(delivered)
  /\ endCarryover' = IF upDone THEN endCarryover ELSE pumpState.carryover
  /\ LET r == PumpOnDone(pumpState)
     IN  /\ outputQueue' = outputQueue \o r.pushed
         /\ state' = r.state
         /\ pumpDidWork' = IF r.pumpDidWork THEN "true" ELSE "false"
         /\ IF r.pumpDidWork
            THEN /\ pc' = "statefulNext"
                 /\ UNCHANGED <<lastResult, doneCount>>
            ELSE /\ pc' = "idle"
                 /\ lastResult' = "done"
                 /\ doneCount' = IF doneCount < 2 THEN doneCount + 1 ELSE 2
  /\ UNCHANGED <<separator, pumpState, failed, nFrags, logical, delivered,
                 lastError, upstreamError, overlapVars>>

\* The upstream pull fails with e: statefulPump rejects, and so does next().
statefulPumpThrow(e) ==
  /\ pc = "statefulPump"
  /\ pulls # <<>> /\ Head(pulls) = "A"
  /\ pulls' = Tail(pulls)
  /\ ~upDone
  /\ LET r == PumpOnThrow(pumpState, outputQueue)
     IN  /\ outputQueue' = r.outputQueue
         /\ state' = r.state
  /\ upstreamError' = e
  /\ lastError' = e
  /\ lastResult' = "error"
  /\ failed' = TRUE
  /\ pc' = "idle"
  /\ UNCHANGED <<separator, pumpState, upDone, nFrags, logical, delivered,
                 pumpDidWork, doneCount, endDelivered, endCarryover, overlapVars>>

Next ==
  \/ next
  \/ nextAfterFailure
  \/ statefulNextShift
  \/ statefulPumpCall
  \/ \E value \in Fragments : statefulPumpValue(value)
  \/ statefulPumpDone
  \/ \E e \in Errors : statefulPumpThrow(e)

Spec == Init /\ [][Next]_vars

\* A finite upstream whose pulls all resolve (none fails), pulled by a
\* consumer that keeps calling next(): every started step of next() is
\* eventually taken and every upstream pull eventually settles.
NextLive ==
  \/ next
  \/ statefulNextShift
  \/ statefulPumpCall
  \/ \E value \in Fragments : statefulPumpValue(value)
  \/ statefulPumpDone

SpecLive ==
  /\ Init
  /\ [][NextLive]_vars
  /\ WF_vars(next)
  /\ WF_vars(statefulNextShift)
  /\ WF_vars(statefulPumpCall)
  /\ WF_vars(statefulPumpDone \/ \E value \in Fragments : statefulPumpValue(value))

\* The upstream pull fails with e and next() rejects, under a caller that
\* does not latch the failure: the consumer may pull again, and statefulPump
\* is then called with the state held before the failing pull.
statefulPumpThrowUnlatched(e) ==
  /\ pc = "statefulPump"
  /\ pulls # <<>> /\ Head(pulls) = "A"
  /\ pulls' = Tail(pulls)
  /\ ~upDone
  /\ LET r == PumpOnThrow(pumpState, outputQueue)
     IN  /\ outputQueue' = r.outputQueue
         /\ state' = r.state
  /\ upstreamError' = e
  /\ lastError' = e
  /\ lastResult' = "error"
  /\ pc' = "idle"
  /\ UNCHANGED <<separator, pumpState, failed, upDone, nFrags, logical,
                 delivered, pumpDidWork, doneCount, endDelivered, endCarryover,
                 overlapVars>>

\* The stream pulled by a consumer that pulls again after a failed pull.
NextRetry ==
  \/ next
  \/ statefulNextShift
  \/ statefulPumpCall
  \/ \E value \in Fragments : statefulPumpValue(value)
  \/ statefulPumpDone
  \/ \E e \in Errors : statefulPumpThrowUnlatched(e)

SpecRetry == Init /\ [][NextRetry]_vars

\* A second next() is called while the first call's statefulPump is
\* suspended on its upstream pull.
nextB ==
  /\ pcB = "idle"
  /\ pc = "statefulPump"
  /\ pcB' = "statefulNext"
  /\ UNCHANGED <<separator, state, outputQueue, pc, pumpState, failed, upDone,
                 nFrags, logical, delivered, lastResult, lastError, upstreamError,
                 pumpDidWork, doneCount, endDelivered, endCarryover, pulls,
                 pumpStateB, overlapped>>

\* statefulNext of the second call with a non-empty queue.
statefulNextShiftB ==
  /\ pcB = "statefulNext"
  /\ outputQueue # <<>>
  /\ delivered' = Append(delivered, Head(outputQueue))
  /\ outputQueue' = Tail(outputQueue)
  /\ lastResult' = "value"
  /\ pcB' = "idle"
  /\ UNCHANGED <<separator, state, pc, pumpState, failed, upDone, nFrags, logical,
                 lastError, upstreamError, pumpDidWork, doneCount, endDelivered,
                 endCarryover, pulls, pumpStateB, overlapped>>

\* statefulNext of the second call with an empty queue: statefulPump(state)
\* captures the held state and suspends on its own upstream pull, which the
\* upstream answers after the pulls issued before it.
statefulPumpCallB ==
  /\ pcB = "statefulNext"
  /\ outputQueue = <<>>
  /\ pumpStateB' = state
  /\ pulls' = UpstreamNext(pulls, "B")
  /\ overlapped' = (overlapped \/ pc = "statefulPump")
  /\ pcB' = "statefulPump"
  /\ UNCHANGED <<separator, state, outputQueue, pc, pumpState, failed, upDone,
                 nFrags, logical, delivered, lastResult, lastError, upstreamError,
                 pumpDidWork, doneCount, endDelivered, endCarryover>>

\* The second call's upstream pull yields the chunk value: its statefulPump
\* goes on with the state it captured.
statefulPumpValueB(value) ==
  /\ pcB = "statefulPump"
  /\ pulls # <<>> /\ Head(pulls) = "B"
  /\ pulls' = Tail(pulls)
  /\ ~upDone
  /\ nFrags < MaxFrags
  /\ LET r == PumpOnValue(pumpStateB, value, separator)
     IN  /\ outputQueue' = outputQueue \o r.pushed
         /\ state' = r.state
         /\ pumpDidWork' = IF r.pumpDidWork THEN "true" ELSE "false"
  /\ nFrags' = nFrags + 1
  /\ logical' = logical \o value
  /\ pcB' = "statefulNext"
  /\ UNCHANGED <<separator, pc, pumpState, failed, upDone, delivered, lastResult,
                 lastError, upstreamError, doneCount, endDelivered, endCarryover,
                 pumpStateB, overlapped>>

\* The second call's upstream pull reports done.
statefulPumpDoneB ==
  /\ pcB = "statefulPump"
  /\ pulls # <<>> /\ Head(pulls) = "B"
  /\ pulls' = Tail(pulls)
  /\ upDone' = TRUE
  /\ endDelivered' = IF upDone THEN endDelivered ELSE Len(delivered)
  /\ endCarryover' = IF upDone THEN endCarryover ELSE pumpStateB.carryover
  /\ LET r == PumpOnDone(pumpStateB)
     IN  /\ outputQueue' = outputQueue \o r.pushed
         /\ state' = r.state
         /\ pumpDidWork' = IF r.pumpDidWork THEN "true" ELSE "false"
         /\ IF r.pumpDidWork
            THEN /\ pcB' = "statefulNext"
                 /\ UNCHANGED <<lastResult, doneCount>>
            ELSE /\ pcB' = "idle"
                 /\ lastResult' = "done"
                 /\ doneCount' = IF doneCount < 2 THEN doneCount + 1 ELSE 2
  /\ UNCHANGED <<separator, pc, pumpState, failed, nFrags, logical, delivered,
                 lastError, upstreamError, pumpStateB, overlapped>>

\* The stream pulled by a consumer that does not wait for one next() to
\* settle before it calls the next one; no upstream pull fails.
NextOverlap ==
  \/ next
  \/ statefulNextShift
  \/ statefulPumpCall
  \/ \E value \in Fragments : statefulPumpValue(value)
  \/ statefulPumpDone
  \/ nextB
  \/ statefulNextShiftB
  \/ statefulPumpCallB
  \/ \E value \in Fragments : statefulPumpValueB(value)
  \/ statefulPumpDoneB

SpecOverlap == Init /\ [][NextOverlap]_vars

\* ------------------------------------------------------------------- types

TypeOK ==
  /\ separator \in Separators
  /\ pc \in {"idle", "statefulNext", "statefulPump"}
  /\ failed \in BOOLEAN /\ upDone \in BOOLEAN
  /\ nFrags \in 0..MaxFrags
  /\ lastResult \in {"none", "value", "done", "error"}
  /\ pumpDidWork \in {"none", "true", "false"}
  /\ doneCount \in 0..2

\* ------------------------------------------------------------------ claims

\* The tokens the stream delivers when the whole logical stream l arrives as
\* one chunk: one statefulPump for the chunk, one for the upstream's done.
OneShot(l, sep) ==
  LET r == PumpOnValue(initialState, l, sep)
  IN  r.pushed \o PumpOnDone(r.state).pushed

\* The tokens enqueued or delivered so far, in order.
Emitted == delivered \o outputQueue

\* One token per character of s.
Characters(s) == [i \in 1..Len(s) |-> <<s[i]>>]

\* s ends with the non-empty string suffix.
EndsWith(s, suffix) ==
  Len(suffix) <= Len(s) /\ SubSeq(s, Len(s) - Len(suffix) + 1, Len(s)) = suffix

\* parts without its last part when that part is empty.
DropLastIfEmpty(parts) ==
  IF parts # <<>> /\ parts[Len(parts)] = <<>> THEN SliceButLast(parts) ELSE parts

\* The upstream ended right after a separator the stream recognised: the
\* carryover was empty at the upstream's done, after at least one token.
EndedOnSeparator == endCarryover = <<>> /\ delivered # <<>>

C3_BoundaryIndependence ==
  lastResult = "done" => delivered = OneShot(logical, separator)

\* C3 as amended: for a separator of one character, the delivered tokens
\* depend only on the concatenation of the chunks.
C3_BoundaryIndependenceOneChar ==
  (lastResult = "done" /\ Len(separator) = 1)
    => delivered = OneShot(logical, separator)

\* C3's case: "a,,a" cut as ["a,", ",a"] and split on "," gave a, "", a.
C3_Witness ==
  /\ lastResult = "done"
  /\ separator = <<",">>
  /\ nFrags = 2
  /\ logical = <<"a", ",", ",", "a">>
  /\ delivered = << <<"a">>, <<>>, <<"a">> >>

\* C4: once the stream has reported done, with the upstream staying done,
\* every later pull reports done again: no error, no further token, and the
\* carryover and the output queue stay empty.
C4_IdempotentTermination ==
  /\ [](lastResult = "done" => (carryover = <<>> /\ outputQueue = <<>>))
  /\ [][lastResult = "done" =>
          /\ lastResult' = "done"
          /\ ~failed'
          /\ delivered' = delivered
          /\ carryover' = <<>>
          /\ outputQueue' = <<>>]_vars

\* C4's case: a pull after the first done has reported done again.
C4_Witness == doneCount = 2 /\ lastResult = "done" /\ delivered # <<>>

\* C5: the pump that sees the upstream's done with a non-empty carryover
\* enqueues the carryover once, empties it and reports work; every pump after
\* the upstream's done reports no work; so exactly one token follows the
\* upstream's end (none for an empty carryover) before the stream reports done.
C5_EndOfStreamFlush ==
  /\ [][(pc = "statefulPump" /\ upDone' /\ carryover # <<>>) =>
          /\ outputQueue' = Append(outputQueue, carryover)
          /\ carryover' = <<>>
          /\ pumpDidWork' = "true"]_vars
  /\ [][(pc = "statefulPump" /\ upDone) =>
          /\ pumpDidWork' = "false"
          /\ lastResult' = "done"
          /\ outputQueue' = <<>>
          /\ delivered' = delivered]_vars
  /\ [](lastResult = "done" =>
          IF endCarryover = <<>>
          THEN Len(delivered) = endDelivered
          ELSE /\ Len(delivered) = endDelivered + 1
               /\ delivered[Len(delivered)] = endCarryover)

\* C5's case: the upstream ended on a non-empty carryover, which was
\* delivered as the last token before done.
C5_Witness ==
  /\ lastResult = "done"
  /\ endCarryover # <<>>
  /\ Len(delivered) = endDelivered + 1
  /\ endDelivered >= 1

\* C6: a failing upstream pull surfaces as that same failure from next(),
\* with nothing pushed, delivered or changed in the carryover, and without
\* another upstream pull; from then on the stream delivers no token.
C6_UpstreamFailure ==
  /\ [][(pc = "statefulPump" /\ upstreamError' # upstreamError) =>
          /\ lastResult' = "error"
          /\ lastError' = upstreamError'
          /\ pc' = "idle"
          /\ outputQueue' = outputQueue
          /\ state' = state
          /\ delivered' = delivered]_vars
  /\ [][failed =>
          /\ failed'
          /\ pc' = "idle"
          /\ lastResult' = "error"
          /\ lastError' = lastError
          /\ delivered' = delivered]_vars

\* C6's case: the upstream failed while a carryover was in flight.
C6_Witness ==
  /\ failed
  /\ lastError = "E2"
  /\ carryover # <<>>
  /\ delivered # <<>>

\* C7: with the empty separator, once the stream has reported done the
\* delivered tokens are the characters of the concatenation, one per token.
C7_EmptySeparatorCharacters ==
  (separator = <<>> /\ lastResult = "done") => delivered = Characters(logical)

\* C8: a pump that consumes an empty chunk leaves the carryover as it was and
\* enqueues nothing, whatever the separator.
C8_EmptyChunkNoEffect ==
  [][(pc = "statefulPump" /\ nFrags' = nFrags + 1 /\ logical' = logical) =>
       (carryover' = carryover /\ outputQueue' = outputQueue)]_vars

\* Every token enqueued or delivered is free of the separator, and the
\* tokens are, in order, the first parts of the split of the logical stream.
TokensAreParts ==
  /\ \A i \in 1..Len(Emitted) : ~Contains(Emitted[i], separator)
  /\ IsPrefix(Emitted, JsSplit(logical, separator))

\* C9 as stated: for any non-empty separator, every token enqueued or
\* delivered is a maximal separator-free substring of the logical stream, in
\* stream order.
C9_TokensMaximal == Len(separator) >= 1 => TokensAreParts

\* C9 as amended: the same for a separator of one character.
C9_TokensMaximalOneChar == Len(separator) = 1 => TokensAreParts

\* C9's case: a token longer than any chunk, so one spanning chunks, was
\* delivered before a later one.
C9_Witness ==
  /\ Len(separator) = 1
  /\ Len(delivered) >= 2
  /\ Len(delivered[1]) > MaxFragLen

\* C10: when the upstream reports done on its first pull, the pump reports
\* no work with the carryover still empty, the first next() reports done and
\* no token is ever enqueued or delivered.
C10_EmptyInput ==
  (upDone /\ nFrags = 0) =>
    /\ pumpDidWork = "false"
    /\ lastResult = "done"
    /\ carryover = <<>>
    /\ outputQueue = <<>>
    /\ delivered = <<>>

\* C10's case: the stream has reported done on an upstream that yielded
\* nothing.
C10_Witness == upDone /\ nFrags = 0 /\ lastResult = "done" /\ doneCount = 1

\* A step in which a statefulPump consumes a chunk, the chunk it consumes and
\* the tokens it enqueues.
PumpsChunk == pc = "statefulPump" /\ nFrags' = nFrags + 1

ConsumedChunk == SubSeq(logical', Len(logical) + 1, Len(logical'))

Enqueued == SubSeq(outputQueue', Len(outputQueue) + 1, Len(outputQueue'))

\* C11 as stated, for a non-empty delimiter: for a pump that consumes chunk f
\* with carryover c before and c' after and enqueues t1..tn, t1..tn joined by
\* the delimiter and followed by c' is c followed by f.
C11_JoinedTokensThenCarryover ==
  [][(PumpsChunk /\ Len(separator) >= 1) =>
       Join(Enqueued, separator) \o carryover' = carryover \o ConsumedChunk]_vars

\* C11 as amended: for a non-empty delimiter, t1..tn and c', all joined by
\* the delimiter (so with a delimiter between tn and c'), is c followed by f.
C11_JoinedTokensAndCarryover ==
  [][(PumpsChunk /\ Len(separator) >= 1) =>
       Join(Append(Enqueued, carryover'), separator)
         = carryover \o ConsumedChunk]_vars

\* C11's case: with carryover "aa" the chunk ",a" was pumped on ",": the
\* token "aa" is queued and the carryover is "a".
C11_Witness ==
  /\ separator = <<",">>
  /\ pc = "statefulNext"
  /\ nFrags = 2
  /\ logical = <<"a", "a", ",", "a">>
  /\ outputQueue = << <<"a", "a">> >>
  /\ carryover = <<"a">>

\* C12: when the logical stream ends with the one-character delimiter (the
\* delimiter is the last character of the final chunk), the carryover is
\* empty at the upstream's done, the pump that sees the done reports no work
\* and the stream reports done with no token after the one the trailing
\* delimiter ended.
C12_TrailingDelimiter ==
  (Len(separator) = 1 /\ upDone /\ EndsWith(logical, separator)) =>
    /\ endCarryover = <<>>
    /\ pumpDidWork = "false"
    /\ lastResult = "done"
    /\ carryover = <<>>
    /\ outputQueue = <<>>
    /\ Len(delivered) = endDelivered
    /\ delivered = SliceButLast(JsSplit(logical, separator))

\* C12's case: ["a,"] split on "," has delivered a and reported done.
C12_Witness ==
  /\ separator = <<",">>
  /\ upDone
  /\ nFrags = 1
  /\ logical = <<"a", ",">>
  /\ delivered = << <<"a">> >>
  /\ doneCount = 1

\* The last part of the split of l: what follows the last separator in l,
\* all of l if there is none.
LastPart(l, sep) ==
  LET parts == JsSplit(l, sep)
  IN  IF parts = <<>> THEN <<>> ELSE parts[Len(parts)]

\* C13 as stated, for a one-character delimiter: in every reachable state the
\* carryover is what follows the last delimiter in the stream consumed so
\* far (all of it if there is none), and it is empty only when that stream is
\* empty or ends with the delimiter.
C13_CarryoverIsSuffix ==
  Len(separator) = 1 =>
    /\ carryover = LastPart(logical, separator)
    /\ (carryover = <<>> => (logical = <<>> \/ EndsWith(logical, separator)))

\* C13 as amended: for a one-character delimiter, in every state before the
\* upstream has reported done the carryover is what follows the last
\* delimiter in the stream consumed so far, empty exactly when that stream is
\* empty or ends with the delimiter; from the upstream's done on it is empty.
\* A chunk without the delimiter enqueues nothing and is appended to the
\* carryover.
C13_CarryoverIsSuffixUntilDone ==
  /\ []((Len(separator) = 1 /\ ~upDone) =>
          /\ carryover = LastPart(logical, separator)
          /\ (carryover = <<>> <=>
                (logical = <<>> \/ EndsWith(logical, separator))))
  /\ []((Len(separator) = 1 /\ upDone) => carryover = <<>>)
  /\ [][(PumpsChunk /\ Len(separator) = 1
           /\ ~Contains(ConsumedChunk, separator)) =>
          /\ outputQueue' = outputQueue
          /\ carryover' = carryover \o ConsumedChunk]_vars

\* C13's case: three chunks without the delimiter have accumulated in the
\* carryover after a token was delivered.
C13_Witness ==
  /\ separator = <<",">>
  /\ ~upDone
  /\ nFrags = 3
  /\ delivered = << <<"a">> >>
  /\ outputQueue = <<>>
  /\ carryover = <<"a", "a">>

\* C14: under sequential pulls every statefulPump issues exactly one upstream
\* pull, which is the only unsettled one while the pump is suspended; the
\* upstream is never pulled while the queue holds a token; and a next() that
\* finds a token queued returns the front token without touching the
\* upstream or the carryover.
C14_PullDiscipline ==
  /\ [](pulls = (IF pc = "statefulPump" THEN <<"A">> ELSE <<>>))
  /\ [](pulls # <<>> => outputQueue = <<>>)
  /\ [][(pc = "statefulNext" /\ outputQueue # <<>>) =>
          /\ delivered' = Append(delivered, Head(outputQueue))
          /\ outputQueue' = Tail(outputQueue)
          /\ lastResult' = "value"
          /\ pc' = "idle"
          /\ pulls' = <<>>
          /\ UNCHANGED <<state, nFrags, logical, upDone>>]_vars

\* C14's case: a next() returned the first of two queued tokens, one that
\* spans chunks, and no upstream pull is unsettled.
C14_Witness ==
  /\ pc = "idle"
  /\ lastResult = "value"
  /\ Len(outputQueue) = 1
  /\ Len(delivered[Len(delivered)]) > MaxFragLen
  /\ pulls = <<>>

\* The parts the split of the chunk consumed in this step produces.
ConsumedParts == JsSplit(ConsumedChunk, separator)

\* A step in which a statefulPump sees the upstream's done.
PumpsDone == pc = "statefulPump" /\ nFrags' = nFrags /\ upDone'

PumpReturns == PumpsChunk \/ PumpsDone

\* C16: a statefulPump only appends to the output queue, leaves the delivered
\* tokens and the state it was called with as they are, and returns that
\* state when it reports no work.
C16_PumpOnlyAppends ==
  [][PumpReturns =>
       /\ IsPrefix(outputQueue, outputQueue')
       /\ delivered' = delivered
       /\ pumpState' = pumpState
       /\ (pumpDidWork' = "false" =>
             (state' = pumpState /\ outputQueue' = outputQueue))]_vars

\* C16's case: after a token was delivered a pump has replaced the state it
\* was called with and enqueued a token.
C16_Witness ==
  /\ pc = "statefulNext"
  /\ pumpDidWork = "true"
  /\ delivered # <<>>
  /\ outputQueue # <<>>
  /\ state # pumpState
  /\ pumpState.carryover # <<>>

\* C17: on a finite upstream whose pulls all resolve, a consumer that keeps
\* pulling eventually gets done from the stream.
C17_Termination == <>(lastResult = "done")

\* C17's case: the stream has reported done after two empty chunks and one
\* without the delimiter, pumps that did work but enqueued nothing.
C17_Witness ==
  /\ lastResult = "done"
  /\ separator = <<",">>
  /\ nFrags = MaxFrags
  /\ logical = <<"a">>
  /\ delivered = << <<"a">> >>

\* The characters of s that are characters of upstream chunks.
StreamCharacters(s) == SelectSeq(s, LAMBDA c : c \in Alphabet)

\* Every character of the logical stream is in exactly one delivered token
\* or is part of one separator between two tokens (or after the last one),
\* in stream order.
NoCharacterLostOrDuplicated ==
  logical = StreamCharacters(Join(delivered, separator))
              \o (IF EndedOnSeparator THEN separator ELSE <<>>)

\* A step in which a statefulPump rejects because the upstream pull failed.
PumpRejects == pc = "statefulPump" /\ pc' = "idle" /\ lastResult' = "error"

AllSettled ==
  /\ pc = "idle" /\ pcB = "idle" /\ pulls = <<>>
  /\ lastResult = "done"
  /\ outputQueue = <<>>
  /\ carryover = <<>>

PumpsChunkA == pc = "statefulPump" /\ pc' # pc /\ nFrags' = nFrags + 1

\* A step in which the second call's statefulPump goes on with a chunk.
PumpsChunkB == pcB = "statefulPump" /\ pcB' # pcB /\ nFrags' = nFrags + 1

====
